---- MODULE Spec2Model ----
(***************************************************************************)
(* markdown-serve: the path resolver of lib/resolver.js.                   *)
(*                                                                         *)
(* Strings are sequences of one-character strings, paths handed to the     *)
(* filesystem are sequences of names (the components of an absolute,       *)
(* normalised path, as path.resolve produces them), and the filesystem is  *)
(* the set of files and the set of directories that exist.                 *)
(***************************************************************************)
EXTENDS Naturals, Integers, Sequences, FiniteSets, TLC

VARIABLES fs, urlPath, options, ret, probes, pc,
          req, io, calls, nexts, sent, data, sv, markedDefaults, conv

vars == <<fs, urlPath, options, ret, probes, pc,
          req, io, calls, nexts, sent, data, sv, markedDefaults, conv>>

\* the options held by the marked module, and the last conversion made
markedVars == <<markedDefaults, conv>>

\* what was written to the disk, and the state of a call of save
saveVars == <<data, sv>>

\* the state of a request to the server and of its file read
serverVars == <<req, io, calls, nexts, sent, data, sv, markedDefaults, conv>>

----------------------------------------------------------------------------
(* Bounds of the model *)

\* the longest urlPath drawn, in '/'-separated segments
MaxSegs == 2

\* how many entries are placed in the filesystem (their parent directories
\* come with them)
MaxEntries == 2

----------------------------------------------------------------------------
(* Strings of the program *)

\* '.md', appended at lines 11, 22, 26 and 36 and matched at line 48
FileExtension == <<".", "m", "d">>

\* 'index', the page of '/' (line 11) and of a trailing slash (line 19)
DefaultPageName == <<"i", "n", "d", "e", "x">>

\* a urlPath argument that was not passed (undefined)
Missing == <<"undefined">>

\* names used by the inputs and by the filesystems
nDash == <<"a", "-", "b">>
nSpace == <<"a", " ", "b">>
nEncoded == <<"a", "%", "2", "0", "b">>
nOther == <<"c">>
nEmpty == <<>>
nDotDot == <<".", ".">>
nEncSlash == <<"%", "2", "F">>
nBadEscape == <<"%">>

----------------------------------------------------------------------------
(* String helpers: what the JavaScript string methods compute *)

\* s.match(/suffix$/)
EndsWith(s, suffix) ==
    /\ Len(s) >= Len(suffix)
    /\ SubSeq(s, Len(s) - Len(suffix) + 1, Len(s)) = suffix

\* s.replace(/-/g, ' ')
replaceDashes(s) == [k \in 1..Len(s) |-> IF s[k] = "-" THEN " " ELSE s[k]]

\* s.split('/'): the pieces between the slashes, empty pieces kept
RECURSIVE splitFrom(_, _, _)
splitFrom(s, k, cur) ==
    IF k > Len(s) THEN <<cur>>
    ELSE IF s[k] = "/" THEN <<cur>> \o splitFrom(s, k + 1, <<>>)
    ELSE splitFrom(s, k + 1, Append(cur, s[k]))

split(s) == splitFrom(s, 1, <<>>)

\* the character a %XX escape stands for; <<>> when the escape is not one of
\* a complete character (a lone '%', a truncated escape, a UTF-8 lead byte)
unescape(h1, h2) ==
    CASE h1 = "2" /\ h2 = "0" -> <<" ">>
      [] h1 = "2" /\ h2 = "D" -> <<"-">>
      [] h1 = "2" /\ h2 = "E" -> <<".">>
      [] h1 = "2" /\ h2 = "F" -> <<"/">>
      [] h1 = "2" /\ h2 = "5" -> <<"%">>
      [] OTHER -> <<>>

\* decodeURIComponent throws URIError on s
RECURSIVE malformedURI(_)
malformedURI(s) ==
    IF s = <<>> THEN FALSE
    ELSE IF Head(s) # "%" THEN malformedURI(Tail(s))
    ELSE IF Len(s) < 3 THEN TRUE
    ELSE IF unescape(s[2], s[3]) = <<>> THEN TRUE
    ELSE malformedURI(SubSeq(s, 4, Len(s)))

\* decodeURIComponent(s), for s it does not throw on
RECURSIVE decodeEscapes(_)
decodeEscapes(s) ==
    IF s = <<>> THEN <<>>
    ELSE IF Head(s) # "%" THEN <<Head(s)>> \o decodeEscapes(Tail(s))
    ELSE unescape(s[2], s[3]) \o decodeEscapes(SubSeq(s, 4, Len(s)))

\* the escapes left as they are
decodeIdentity(s) == s

decodeURIComponent(s) == decodeEscapes(s)

----------------------------------------------------------------------------
(* path.resolve *)

\* one component applied to an absolute path: '' and '.' stay, '..' goes up
\* (and stays at '/'), a name goes down
step(base, name) ==
    IF name = <<>> \/ name = <<".">> THEN base
    ELSE IF name = <<".", ".">>
         THEN (IF base = <<>> THEN <<>> ELSE SubSeq(base, 1, Len(base) - 1))
    ELSE Append(base, name)

RECURSIVE normalize(_, _, _)
normalize(base, names, k) ==
    IF k > Len(names) THEN base
    ELSE normalize(step(base, names[k]), names, k + 1)

\* path.resolve(from, to) for an absolute, normalised `from`: an absolute
\* `to` replaces `from`
pathResolve(from, to) ==
    IF to # <<>> /\ Head(to) = "/"
    THEN normalize(<<>>, split(to), 1)
    ELSE normalize(from, split(to), 1)

----------------------------------------------------------------------------
(* The filesystem *)

rootDir == << <<"r">> >>

\* fs.existsSync(file): true of files and of directories alike
exists(file) == file = <<>> \/ file \in fs.files \/ file \in fs.dirs

File(p) == [path |-> p, kind |-> "file"]
Dir(p) == [path |-> p, kind |-> "dir"]

TopDirs == {nDash, nSpace}
PageNames == {nDash \o FileExtension, nSpace \o FileExtension,
              DefaultPageName \o FileExtension}

\* what may lie on the disk: pages in the root and in its folders, folders
\* (one carrying the extension in its name), and a page beside the root
Universe ==
    {File(Append(rootDir, n)) : n \in PageNames}
    \cup {Dir(Append(rootDir, n)) : n \in TopDirs \cup {nDash \o FileExtension}}
    \cup {File(rootDir \o <<d, n>>) : d \in TopDirs, n \in PageNames}
    \cup {File(<<nDash \o FileExtension>>)}

Ancestors(p) == {SubSeq(p, 1, k) : k \in 1..(Len(p) - 1)}

FsOf(S) ==
    [files |-> {e.path : e \in {x \in S : x.kind = "file"}},
     dirs  |-> {e.path : e \in {x \in S : x.kind = "dir"}}
               \cup UNION {Ancestors(e.path) : e \in S} \cup {rootDir}]

Filesystems ==
    {FsOf(S) : S \in {T \in SUBSET Universe :
                        /\ Cardinality(T) <= MaxEntries
                        /\ FsOf(T).files \cap FsOf(T).dirs = {}}}

----------------------------------------------------------------------------
(* Results *)

NotFound == [kind |-> "null", path |-> <<>>]
Found(file) == [kind |-> "path", path |-> file]
Threw == [kind |-> "throw", path |-> <<>>]

\* what a run of the function leaves: the returned value and the paths it
\* handed to exists()
Out(r, probed) == [ret |-> r, probes |-> probed]

----------------------------------------------------------------------------
(* lib/resolver.js: resolver(urlPath, rootDir) *)

\* the string of an absolute path: '/' for the root, else '/name/name...'
RECURSIVE pathString(_)
pathString(p) ==
    IF p = <<>> THEN <<"/">>
    ELSE IF Len(p) = 1 THEN <<"/">> \o p[1]
    ELSE pathString(SubSeq(p, 1, Len(p) - 1)) \o <<"/">> \o p[Len(p)]

\* !urlPath alone, for an undefined urlPath
missingOnly(u) == u = Missing

\* !urlPath || urlPath[0] != '/'
invalidUrlPath(u) == u = Missing \/ u = <<>> \/ u[1] # "/"

\* no root case
neverRootPath(u) == FALSE

\* urlPath === '/'
isRootPath(u) == u = <<"/">>

\* .substring(1)
stripLeading(s) == SubSeq(s, 2, Len(s))

\* the trailing slash left as it is
keepTrailingSlash(p) == p

\* if (urlPath.match(/\/$/)) urlPath += 'index'
appendIndex(p) == IF EndsWith(p, <<"/">>) THEN p \o DefaultPageName ELSE p

\* the urlPath the function works on after lines 15-19
normalized(u) == appendIndex(stripLeading(decodeURIComponent(u)))

\* the de-dashed name in the place of the verbatim one
dedashedName(p, root) == pathResolve(root, replaceDashes(p) \o FileExtension)

\* path.resolve(rootDir, urlPath + '.md')
directCandidate(p, root) == pathResolve(root, p \o FileExtension)

\* the verbatim name in the place of the de-dashed one
verbatimName(p, root) == pathResolve(root, p \o FileExtension)

\* path.resolve(rootDir, urlPath.replace(/-/g, ' ') + '.md')
dedashCandidate(p, root) == pathResolve(root, replaceDashes(p) \o FileExtension)

\* the loop with the literal name of a segment alone
RECURSIVE walkLiteralOnly(_, _, _, _)
walkLiteralOnly(segs, i, u, probed) ==
    IF i > Len(segs) THEN [u |-> u, probes |-> probed]
    ELSE LET s == IF i = Len(segs) THEN segs[i] \o FileExtension ELSE segs[i]
             p == pathResolve(u, s)
         IN  IF exists(p) THEN walkLiteralOnly(segs, i + 1, p, probed \cup {p})
             ELSE walkLiteralOnly(segs, i + 1, u, probed \cup {p})

\* the for loop over the segments: [u |-> the path built, probes |-> the
\* paths handed to exists()]
RECURSIVE walk(_, _, _, _)
walk(segs, i, u, probed) ==
    IF i > Len(segs) THEN [u |-> u, probes |-> probed]
    ELSE LET s == IF i = Len(segs) THEN segs[i] \o FileExtension ELSE segs[i]
             p == pathResolve(u, s)
             q == pathResolve(u, replaceDashes(s))
         IN  IF exists(p) THEN walk(segs, i + 1, p, probed \cup {p})
             ELSE IF exists(q) THEN walk(segs, i + 1, q, probed \cup {p, q})
             ELSE walk(segs, i + 1, u, probed \cup {p, q})

\* lines 30-51
segmentWalk(p, root, probed) ==
    LET w == walk(split(p), 1, root, probed)
    IN  IF EndsWith(pathString(w.u), FileExtension)
        THEN Out(IF exists(w.u) THEN Found(w.u) ELSE NotFound, w.probes \cup {w.u})
        ELSE Out(NotFound, w.probes)

resolver(u, root) ==
    IF invalidUrlPath(u) THEN Out(NotFound, {})
    ELSE IF isRootPath(u)
    THEN LET file == pathResolve(root, DefaultPageName \o FileExtension)
         IN  Out(IF exists(file) THEN Found(file) ELSE NotFound, {file})
    ELSE IF malformedURI(u) THEN Out(Threw, {})
    ELSE LET p == normalized(u)
             direct == directCandidate(p, root)
             dedash == dedashCandidate(p, root)
         IN  IF exists(direct) THEN Out(Found(direct), {direct})
             ELSE IF exists(dedash) THEN Out(Found(dedash), {direct, dedash})
             ELSE segmentWalk(p, root, {direct, dedash})

----------------------------------------------------------------------------
(* The inputs *)

SegChoices == {nDash, nSpace, nEncoded, nOther, nEmpty, nDotDot,
               nEncSlash, nBadEscape, nDash \o FileExtension}

RECURSIVE join(_)
join(segs) ==
    IF Len(segs) = 1 THEN segs[1]
    ELSE segs[1] \o <<"/">> \o join(Tail(segs))

SegSeqs == UNION {[1..n -> SegChoices] : n \in 1..MaxSegs}

\* url paths with a leading slash; then the ones the first line turns away
UrlPaths ==
    {<<"/">> \o join(segs) : segs \in SegSeqs}
    \cup SegChoices \cup {Missing}

----------------------------------------------------------------------------
(* resolver(urlPath, rootDir, options): the options of the resolver *)

\* an options object; '' stands for a field that is not set
Options(page, ext, inUrl) ==
    [defaultPageName |-> page, fileExtension |-> ext, useExtensionInUrl |-> inUrl]

NoOptions == Options(<<>>, <<>>, FALSE)

\* the extension taken as it is given
extensionAsGiven(o) ==
    IF o.fileExtension # <<>> THEN o.fileExtension ELSE FileExtension

\* the configured extension, or '.md'; a '.' is put before it when it has none
extensionOf(o) ==
    LET ext == IF o.fileExtension # <<>> THEN o.fileExtension ELSE FileExtension
    IN  IF Head(ext) # "." THEN <<".">> \o ext ELSE ext

\* the option ignored
pageNameIgnored(o) == DefaultPageName

\* the configured default page name, or 'index'
pageNameOf(o) ==
    IF o.defaultPageName # <<>> THEN o.defaultPageName ELSE DefaultPageName

\* the escape hatch never taken
neverLiteral(p, o) == FALSE

\* useExtensionInUrl is set and the path already ends with the extension
takenLiterally(p, o) == o.useExtensionInUrl /\ EndsWith(p, extensionOf(o))

\* the for loop over the segments, with the configured extension
RECURSIVE walkWith(_, _, _, _, _)
walkWith(segs, i, u, probed, ext) ==
    IF i > Len(segs) THEN [u |-> u, probes |-> probed]
    ELSE LET s == IF i = Len(segs) THEN segs[i] \o ext ELSE segs[i]
             p == pathResolve(u, s)
             q == pathResolve(u, replaceDashes(s))
         IN  IF exists(p) THEN walkWith(segs, i + 1, p, probed \cup {p}, ext)
             ELSE IF exists(q) THEN walkWith(segs, i + 1, q, probed \cup {p, q}, ext)
             ELSE walkWith(segs, i + 1, u, probed \cup {p, q}, ext)

segmentWalkWith(p, root, probed, ext) ==
    LET w == walkWith(split(p), 1, root, probed, ext)
    IN  IF EndsWith(pathString(w.u), ext)
        THEN Out(IF exists(w.u) THEN Found(w.u) ELSE NotFound, w.probes \cup {w.u})
        ELSE Out(NotFound, w.probes)

\* the path after decoding, stripping and the default page of a trailing slash
normalizedWith(u, o) ==
    LET p == stripLeading(decodeURIComponent(u))
    IN  IF EndsWith(p, <<"/">>) THEN p \o pageNameOf(o) ELSE p

resolverWith(u, root, o) ==
    IF invalidUrlPath(u) THEN Out(NotFound, {})
    ELSE IF isRootPath(u)
    THEN LET file == pathResolve(root, pageNameOf(o) \o extensionOf(o))
         IN  Out(IF exists(file) THEN Found(file) ELSE NotFound, {file})
    ELSE IF malformedURI(u) THEN Out(Threw, {})
    ELSE LET p == normalizedWith(u, o)
             ext == extensionOf(o)
             literal == pathResolve(root, p)
             direct == pathResolve(root, p \o ext)
             dedash == pathResolve(root, replaceDashes(p) \o ext)
         IN  IF takenLiterally(p, o)
             THEN Out(IF exists(literal) THEN Found(literal) ELSE NotFound, {literal})
             ELSE IF exists(direct) THEN Out(Found(direct), {direct})
             ELSE IF exists(dedash) THEN Out(Found(dedash), {direct, dedash})
             ELSE segmentWalkWith(p, root, {direct, dedash}, ext)

\* the inputs of the calls with options
nFoo == <<"f", "o", "o">>
nCustom == <<"c", "u", "s", "t", "o", "m">>

OptionChoices ==
    {Options(page, ext, inUrl) : page \in {<<>>, nCustom},
                                 ext \in {<<>>, nFoo, <<".">> \o nFoo},
                                 inUrl \in BOOLEAN}

OptSegChoices == {nDash, nEmpty, nDash \o FileExtension,
                  nDash \o <<".">> \o nFoo}

OptUrlPaths ==
    {<<"/">> \o join(segs) :
        segs \in UNION {[1..n -> OptSegChoices] : n \in 1..MaxSegs}}

OptUniverse ==
    {File(Append(rootDir, n \o e)) :
        n \in {nDash}, e \in {FileExtension, <<".">> \o nFoo}}
    \cup {File(Append(rootDir, nSpace \o <<".">> \o nFoo)),
          File(Append(rootDir, nCustom \o FileExtension))}
    \cup {File(rootDir \o <<nDash, n \o FileExtension>>) :
            n \in {DefaultPageName, nCustom}}
    \cup {File(rootDir \o <<nDash, nCustom \o <<".">> \o nFoo>>)}

OptFilesystems ==
    {FsOf(S) : S \in {T \in SUBSET OptUniverse : Cardinality(T) <= MaxEntries}}

----------------------------------------------------------------------------
(* MarkdownServer.get, parser.parse and the middleware *)

\* the options of the middleware that decide the response: a view, a
\* preParse value (none, the boolean true, a function, or anything else),
\* a handler function
Handling(view, preParse, handler) ==
    [view |-> view, preParse |-> preParse, handler |-> handler]

NoHandling == Handling(FALSE, "none", FALSE)

\* no request, and no file read, under way
NoReq == [via |-> "none", method |-> "", handling |-> NoHandling]
NoIo == [state |-> "none", file |-> <<>>, code |-> "", data |-> <<>>]

\* no call of save under way
NoSave == [state |-> "none", file |-> <<>>, uri |-> <<>>, text |-> <<>>,
           raw |-> [type |-> "null", text |-> <<>>], meta |-> <<>>,
           hasMeta |-> FALSE, isNew |-> FALSE,
           before |-> [files |-> {}, dirs |-> {}]]

\* meta: null
NoMeta == <<>>

\* what a callback(err, result) is called with: an error, or a MarkdownFile
\* with its _file, meta and rawContent
Failure(code, message) ==
    [kind |-> "error", code |-> code, message |-> message, file |-> <<>>,
     meta |-> NoMeta, rawContent |-> <<>>]
Success(file, meta, rawContent) ==
    [kind |-> "result", code |-> "", message |-> <<>>, file |-> file,
     meta |-> meta, rawContent |-> rawContent]

----------------------------------------------------------------------------
(* lib/parser.js: the text of a file. A text is a sequence of pieces: "a" is
   a piece of plain text (which YAML reads as a string), "!" a piece of
   text that is not valid YAML, "k" the YAML of a meta object, "nl" a
   newline and "---" three dashes. *)

\* the text of the pages that were on the disk from the start: front
\* matter, the separator, and a body
FixtureData == <<"k", "nl", "---", "nl", "nl", "a">>

\* the text of a file on the disk
contentOf(file) ==
    IF \E d \in data : d.file = file
    THEN (CHOOSE d \in data : d.file = file).text
    ELSE FixtureData

\* data.replace(/^-{3}/, '')
stripDashes(d) == IF d # <<>> /\ Head(d) = "---" THEN Tail(d) ELSE d

\* .split('---')
RECURSIVE splitDashes(_, _, _)
splitDashes(d, k, cur) ==
    IF k > Len(d) THEN <<cur>>
    ELSE IF d[k] = "---" THEN <<cur>> \o splitDashes(d, k + 1, <<>>)
    ELSE splitDashes(d, k + 1, Append(cur, d[k]))

\* content.join('---')
RECURSIVE joinDashes(_)
joinDashes(content) ==
    IF Len(content) = 1 THEN content[1]
    ELSE content[1] \o <<"---">> \o joinDashes(Tail(content))

\* .replace(/^\n*/, '')
RECURSIVE stripNewlines(_)
stripNewlines(d) ==
    IF d # <<>> /\ Head(d) = "nl" THEN stripNewlines(Tail(d)) ELSE d

notNewline(t) == t # "nl"

\* parseYml(data): null for no data, for text yaml.safeLoad throws on, and
\* for text that holds nothing; else the value read
parseYml(d) ==
    IF d = <<>> THEN NoMeta
    ELSE IF \E k \in 1..Len(d) : d[k] = "!" THEN NoMeta
    ELSE SelectSeq(d, notNewline)

\* yaml.safeDump(meta)
safeDump(meta) == meta \o <<"nl">>

\* lines 72-88 of parse: the split of the data into meta and rawContent
frontMatter(d) ==
    LET content == splitDashes(stripDashes(d), 1, <<>>)
    IN  IF Len(content) = 1
        THEN [meta |-> NoMeta, rawContent |-> content[1]]
        ELSE LET meta == parseYml(content[1])
                 rest == IF meta # NoMeta THEN Tail(content) ELSE content
             IN  [meta |-> meta, rawContent |-> stripNewlines(joinDashes(rest))]

\* the string saveChanges writes: the YAML of meta and a separator when
\* there is a meta, then rawContent
serialized(meta, rawContent) ==
    IF meta # NoMeta THEN safeDump(meta) \o <<"---", "nl", "nl">> \o rawContent
    ELSE rawContent

----------------------------------------------------------------------------
(* MarkdownServer.get and the middleware, continued *)

NoFilePrefix == <<"No file found matching path: ">>

\* the error naming the file that was looked for first
noFileErrorNamingFile(u) ==
    Failure("Error", NoFilePrefix \o
        pathString(IF invalidUrlPath(u) THEN rootDir
                   ELSE pathResolve(rootDir, stripLeading(u) \o FileExtension)))

\* new Error('No file found matching path: ' + uriPath)
noFileError(u) == Failure("Error", NoFilePrefix \o u)

\* fs.readFile(file, 'utf8', ...): the data, or the error code of the read
readFile(file) ==
    IF file \in fs.files THEN "data"
    ELSE IF file \in fs.dirs \/ file = <<>> THEN "EISDIR"
    ELSE "ENOENT"

\* the error fs.readFile hands to its callback
readError(code, file) ==
    Failure(code, <<code, ": ">> \o pathString(file))

\* the error of the read not looked at
parsedIgnoringError(r) == Success(r.file, NoMeta, <<>>)

\* what the callback of fs.readFile hands on once the file metadata is read
parsed(r) ==
    IF r.state = "error" THEN readError(r.code, r.file)
    ELSE LET doc == frontMatter(r.data)
         IN  Success(r.file, doc.meta, doc.rawContent)

\* the _file property left on the result
keepFile(result) == result

\* delete result._file
deleteFile(result) == [result EXCEPT !.file = <<>>]

\* what the middleware does with a result: how it answers, the _file of the
\* MarkdownFile it hands over, whether parsedContent was set on it, whether
\* the preParse function was called with it, and the view model rendered
Response(how, result, parsedContent, preParsed, model) ==
    [how |-> how, file |-> result.file, parsedContent |-> parsedContent,
     preParsed |-> preParsed, model |-> model]

\* the handler called although a view is set
respondHandlerFirst(handling, result) ==
    IF handling.handler
    THEN Response("handler", deleteFile(result), FALSE, FALSE, "")
    ELSE Response("render", deleteFile(result), FALSE, FALSE, "markdownFile")

\* the response the middleware callback gives for a result
respond(handling, result) ==
    LET r == deleteFile(result)
    IN  IF handling.view
        THEN IF handling.preParse = "true"
             THEN Response("render", r, TRUE, FALSE, "markdownFile")
             ELSE IF handling.preParse = "function"
             THEN Response("render", r, FALSE, TRUE, "preParse")
             ELSE Response("render", r, FALSE, FALSE, "markdownFile")
        ELSE IF handling.handler
        THEN Response("handler", r, FALSE, FALSE, "")
        ELSE Response("send", r, TRUE, FALSE, "markdownFile")

\* req.method !== 'GET' && !options.handler: next() is called first
passedOn(method, handling) == method # "GET" /\ ~handling.handler

\* the requests made of the server
Methods == {"GET", "POST"}
PreParses == {"none", "true", "function", "other"}
Handlings ==
    {Handling(view, preParse, handler) :
        view \in BOOLEAN, preParse \in PreParses, handler \in BOOLEAN}

ServerSegs == {nDash, nEncoded, nOther, nEmpty, nBadEscape}

ServerPaths ==
    {<<"/">> \o s : s \in ServerSegs} \cup {nDash, <<"/">> \o nSpace \o <<"/">>}

\* what may lie on the disk of the server: pages in the root, a folder with
\* its page, and a folder carrying the extension in its name
ServerUniverse ==
    {File(Append(rootDir, n)) : n \in PageNames}
    \cup {File(rootDir \o <<nSpace, DefaultPageName \o FileExtension>>),
          Dir(Append(rootDir, nDash \o FileExtension))}

ServerFilesystems ==
    {FsOf(S) : S \in {T \in SUBSET ServerUniverse :
                        /\ Cardinality(T) <= MaxEntries
                        /\ FsOf(T).files \cap FsOf(T).dirs = {}}}

----------------------------------------------------------------------------
(* MarkdownServer.prototype.save and MarkdownFile.prototype.saveChanges *)

\* a rawContent argument: a string, or null, or a value of another type
Str(text) == [type |-> "string", text |-> text]
NullContent == [type |-> "null", text |-> <<>>]
NumberContent == [type |-> "number", text |-> <<"a">>]

\* only a rawContent that was not passed turned down
missingContent(raw) == raw.type = "null"

\* !rawContent || !_.isString(rawContent)
invalidContent(raw) == raw.type # "string" \/ raw.text = <<>>

\* the extension as the options give it
saveExtensionAsGiven(o) ==
    IF o.fileExtension # <<>> THEN o.fileExtension ELSE FileExtension

\* lines 489-491: the extension of a new file
saveExtension(o) ==
    LET ext == IF o.fileExtension # <<>> THEN o.fileExtension ELSE FileExtension
    IN  IF Head(ext) # "." THEN <<".">> \o ext ELSE ext

\* line 493: the default page name of a new file
savePageName(o) ==
    IF o.defaultPageName # <<>> THEN o.defaultPageName ELSE DefaultPageName

\* lines 496-497: the uriPath with the default page name after a trailing slash
saveUri(u, o) == IF EndsWith(u, <<"/">>) THEN u \o savePageName(o) ELSE u

\* path.join(from, to): `to` is taken under `from` whatever it starts with
pathJoin(from, to) == normalize(from, split(to), 1)

\* line 499: the file of a uriPath the resolver found nothing for
newFile(u, o) == pathJoin(rootDir, saveUri(u, o) \o saveExtension(o))

\* mkdirp.sync(dir) throws: a file stands where a directory is needed
cannotMkdir(file) == \E d \in Ancestors(file) : d \in fs.files

\* fs.writeFile(file, ...) fails: the file is a directory, or its directory
\* is none
cannotWrite(file) ==
    \/ file \in fs.dirs
    \/ file = <<>>
    \/ SubSeq(file, 1, Len(file) - 1) \notin fs.dirs \cup {<<>>}

\* the inputs of save
SaveTexts == {<<"a">>, <<"nl", "a">>, <<"a", "nl", "---", "nl", "a">>,
              <<"!", "nl", "---", "nl", "a">>}

SaveContents ==
    {Str(t) : t \in SaveTexts} \cup {Str(<<>>), NullContent, NumberContent}

MetaObject == <<"k">>

SaveOptions == {NoOptions, Options(nCustom, nFoo, FALSE)}

SavePaths ==
    {<<"/">> \o nDash, <<"/">> \o nOther \o <<"/">> \o nOther,
     <<"/">> \o nOther \o <<"/">>, nOther, <<"/">> \o nEncoded,
     <<"/">> \o nBadEscape}

----------------------------------------------------------------------------
(* lib/parser.js: parseContent and parseMarkdown, and the options of marked *)

\* an options object for marked; "unset" stands for a key it does not have,
\* isNull for no object at all (_markedOptions null)
MarkedOptions(isNull, tables, breaks, sanitize, highlight) ==
    [isNull |-> isNull, tables |-> tables, breaks |-> breaks,
     sanitize |-> sanitize, highlight |-> highlight]

NullMarkedOptions == MarkedOptions(TRUE, "unset", "unset", "unset", "unset")

\* the options marked starts with
LibraryDefaults == MarkedOptions(FALSE, "on", "off", "off", "unset")

\* { highlight: function(code) { return hl.highlightAuto(code).value; } }
HighlightAuto == MarkedOptions(FALSE, "unset", "unset", "unset", "auto")

\* the keys of opt laid over those of base
merge(base, opt) ==
    MarkedOptions(FALSE,
                  IF opt.tables # "unset" THEN opt.tables ELSE base.tables,
                  IF opt.breaks # "unset" THEN opt.breaks ELSE base.breaks,
                  IF opt.sanitize # "unset" THEN opt.sanitize ELSE base.sanitize,
                  IF opt.highlight # "unset" THEN opt.highlight ELSE base.highlight)

\* marked.setOptions(opt): the options are merged into those the module holds
setOptions(held, opt) == merge(held, opt)

\* parseMarkdown(source, options, callback): the options the module holds
\* after the call to marked.setOptions, which are those marked converts with
parseMarkdown(held, o) ==
    IF ~o.isNull THEN setOptions(held, o) ELSE setOptions(held, HighlightAuto)

\* the _markedOptions of the files converted
MarkedChoices ==
    {MarkedOptions(FALSE, t, b, s, h) :
        t \in {"unset", "on", "off"}, b \in {"unset", "on", "off"},
        s \in {"unset", "on", "off"}, h \in {"unset", "custom"}}
    \cup {NullMarkedOptions}

NoConversion == [state |-> "none", asked |-> NullMarkedOptions, used |-> LibraryDefaults]

----------------------------------------------------------------------------
(* The state machine: a filesystem, and calls of the resolver on it *)

Init ==
    /\ fs \in Filesystems
    /\ urlPath = Missing
    /\ options = NoOptions
    /\ ret = NotFound
    /\ probes = {}
    /\ pc = "idle"
    /\ req = NoReq
    /\ io = NoIo
    /\ calls = <<>>
    /\ nexts = 0
    /\ sent = <<>>
    /\ data = {}
    /\ sv = NoSave
    /\ markedDefaults = LibraryDefaults
    /\ conv = NoConversion

\* a call that also creates the first directory it looked for and did not
\* find
ResolveCreating(u) ==
    /\ pc = "idle"
    /\ LET out == resolver(u, rootDir)
           absent == {p \in out.probes : ~exists(p)}
       IN  /\ ret' = out.ret
           /\ probes' = out.probes
           /\ fs' = IF absent = {} THEN fs
                    ELSE [fs EXCEPT !.dirs = @ \cup {CHOOSE p \in absent : TRUE}]
    /\ urlPath' = u
    /\ pc' = "done"
    /\ UNCHANGED <<options, serverVars>>

\* one call resolver(u, rootDir), run to completion
Resolve(u) ==
    /\ pc = "idle"
    /\ LET out == resolver(u, rootDir)
       IN  /\ ret' = out.ret
           /\ probes' = out.probes
    /\ urlPath' = u
    /\ pc' = "done"
    /\ UNCHANGED <<fs, options, serverVars>>

\* the caller takes the result; the call leaves nothing behind
Return ==
    /\ pc = "done"
    /\ pc' = "idle"
    /\ urlPath' = Missing
    /\ options' = NoOptions
    /\ ret' = NotFound
    /\ probes' = {}
    /\ req' = NoReq
    /\ io' = NoIo
    /\ calls' = <<>>
    /\ nexts' = 0
    /\ sent' = <<>>
    /\ data' = {}
    /\ sv' = NoSave
    /\ UNCHANGED markedVars
    /\ UNCHANGED fs

Next ==
    \/ \E u \in UrlPaths : Resolve(u)
    \/ Return

Spec == Init /\ [][Next]_vars

\* calls with options, on disks that hold pages of either extension
InitOptions ==
    /\ fs \in OptFilesystems
    /\ urlPath = Missing
    /\ options = NoOptions
    /\ ret = NotFound
    /\ probes = {}
    /\ pc = "idle"
    /\ req = NoReq
    /\ io = NoIo
    /\ calls = <<>>
    /\ nexts = 0
    /\ sent = <<>>
    /\ data = {}
    /\ sv = NoSave
    /\ markedDefaults = LibraryDefaults
    /\ conv = NoConversion

\* one call resolver(u, rootDir, o), run to completion
ResolveWith(u, o) ==
    /\ pc = "idle"
    /\ LET out == resolverWith(u, rootDir, o)
       IN  /\ ret' = out.ret
           /\ probes' = out.probes
    /\ urlPath' = u
    /\ options' = o
    /\ pc' = "done"
    /\ UNCHANGED <<fs, serverVars>>

NextOptions ==
    \/ \E u \in OptUrlPaths, o \in OptionChoices : ResolveWith(u, o)
    \/ Return

SpecOptions == InitOptions /\ [][NextOptions]_vars

\* server.get(u, callback) up to its return: the resolver is run; with no
\* file the callback is called at once, by the middleware's callback with
\* next(); with a file the read is started
serverGet(u, via, method, handling, passed) ==
    /\ LET out == resolver(u, rootDir)
           found == out.ret.kind = "path"
           none == out.ret.kind = "null"
       IN  /\ ret' = out.ret
           /\ probes' = out.probes
           /\ calls' = IF none THEN Append(calls, noFileError(u)) ELSE calls
           /\ nexts' = nexts + (IF passed THEN 1 ELSE 0)
                             + (IF none /\ via = "middleware" THEN 1 ELSE 0)
           /\ io' = IF found
                    THEN [state |-> "reading", file |-> out.ret.path,
                          code |-> "", data |-> <<>>]
                    ELSE io
           /\ pc' = IF found THEN "reading" ELSE "done"
    /\ urlPath' = u
    /\ req' = [via |-> via, method |-> method, handling |-> handling]
    /\ UNCHANGED <<fs, options, sent, saveVars, markedVars>>

\* a call of MarkdownServer.get made by the program itself
Get(u) ==
    /\ pc = "idle"
    /\ serverGet(u, "get", "", NoHandling, FALSE)

\* the middleware function on a request: next() for a method other than GET
\* when no handler is set, with no return after it, and then server.get
Middleware(method, u, handling) ==
    /\ pc = "idle"
    /\ serverGet(u, "middleware", method, handling, passedOn(method, handling))

\* the read of the file completes, with its data or with an error
ReadFile ==
    /\ pc = "reading"
    /\ LET r == readFile(io.file)
       IN  io' = IF r = "data"
                 THEN [io EXCEPT !.state = "data", !.data = contentOf(io.file)]
                 ELSE [io EXCEPT !.state = "error", !.code = r]
    /\ pc' = "read"
    /\ UNCHANGED <<fs, urlPath, options, ret, probes, req, calls, nexts, sent,
                   saveVars, markedVars>>

\* the callback of fs.readFile: the error is handed on; else fs.statSync is
\* called, which throws when the file is gone, and the result is handed on;
\* the middleware's callback answers with next() or with a response
ParseCallback ==
    /\ pc = "read"
    /\ IF io.state = "data" /\ io.file \notin fs.files
       THEN /\ io' = [io EXCEPT !.state = "threw", !.code = "ENOENT"]
            /\ UNCHANGED <<calls, nexts, sent>>
       ELSE LET given == parsed(io)
            IN  /\ calls' = Append(calls, given)
                /\ nexts' = IF req.via = "middleware" /\ given.kind = "error"
                            THEN nexts + 1 ELSE nexts
                /\ sent' = IF req.via = "middleware" /\ given.kind = "result"
                           THEN Append(sent, respond(req.handling, given)) ELSE sent
                /\ io' = io
    /\ pc' = "done"
    /\ UNCHANGED <<fs, urlPath, options, ret, probes, req, saveVars, markedVars>>

\* another process deletes the file while its read is under way
Unlink ==
    /\ pc \in {"reading", "read"}
    /\ io.file \in fs.files
    /\ fs' = [fs EXCEPT !.files = @ \ {io.file}]
    /\ data' = {d \in data : d.file # io.file}
    /\ UNCHANGED <<urlPath, options, ret, probes, pc, req, io, calls, nexts, sent,
                   sv, markedVars>>

NextServer ==
    \/ \E u \in ServerPaths : Get(u)
    \/ \E method \in Methods, u \in ServerPaths, handling \in Handlings :
           Middleware(method, u, handling)
    \/ ReadFile
    \/ ParseCallback
    \/ Unlink
    \/ Return

\* the server on a disk of its own, with no request under way
InitServer ==
    /\ fs \in ServerFilesystems
    /\ urlPath = Missing
    /\ options = NoOptions
    /\ ret = NotFound
    /\ probes = {}
    /\ pc = "idle"
    /\ req = NoReq
    /\ io = NoIo
    /\ calls = <<>>
    /\ nexts = 0
    /\ sent = <<>>
    /\ data = {}
    /\ sv = NoSave
    /\ markedDefaults = LibraryDefaults
    /\ conv = NoConversion

SpecServer == InitServer /\ [][NextServer]_vars

\* save(u, rawContent, meta, callback) up to its return: the content is
\* checked, the resolver is run, the file of a new document is named, its
\* directories are made, and the write is started
Save(u, raw, hasMeta, meta, o) ==
    /\ pc = "idle"
    /\ urlPath' = u
    /\ options' = o
    /\ req' = [via |-> "save", method |-> "", handling |-> NoHandling]
    /\ IF invalidContent(raw)
       THEN /\ calls' = Append(calls, Failure("Error", <<"rawContent">>))
            /\ sv' = [NoSave EXCEPT !.state = "rejected", !.raw = raw,
                                   !.hasMeta = hasMeta, !.meta = meta, !.before = fs]
            /\ pc' = "done"
            /\ UNCHANGED <<fs, ret, probes>>
       ELSE LET out == resolverWith(u, rootDir, o)
                found == out.ret.kind = "path"
                file == IF found THEN out.ret.path ELSE newFile(u, o)
                threw == \/ out.ret.kind = "throw"
                         \/ ~found /\ u = Missing
                         \/ ~found /\ cannotMkdir(file)
                kept == IF hasMeta THEN meta ELSE NoMeta
            IN  /\ ret' = out.ret
                /\ probes' = out.probes
                /\ calls' = calls
                /\ sv' = [state |-> IF threw THEN "threw" ELSE "writing",
                          file |-> IF threw THEN <<>> ELSE file,
                          uri |-> IF found THEN u ELSE saveUri(u, o),
                          text |-> serialized(kept, raw.text),
                          raw |-> raw, meta |-> meta, hasMeta |-> hasMeta,
                          isNew |-> ~found, before |-> fs]
                /\ fs' = IF threw THEN fs
                         ELSE [fs EXCEPT !.dirs = @ \cup Ancestors(file)]
                /\ pc' = IF threw THEN "done" ELSE "writing"
    /\ UNCHANGED <<io, nexts, sent, data, markedVars>>

\* fs.writeFile completes: the file holds the new text, or the write failed
WriteFile ==
    /\ pc = "writing"
    /\ IF cannotWrite(sv.file)
       THEN /\ sv' = [sv EXCEPT !.state = "failed"]
            /\ UNCHANGED <<fs, data>>
       ELSE /\ sv' = [sv EXCEPT !.state = "wrote"]
            /\ fs' = [fs EXCEPT !.files = @ \cup {sv.file}]
            /\ data' = {d \in data : d.file # sv.file}
                           \cup {[file |-> sv.file, text |-> sv.text]}
    /\ pc' = "written"
    /\ UNCHANGED <<urlPath, options, ret, probes, req, io, calls, nexts, sent,
                   markedVars>>

\* the callback of saveChanges: an error is handed on; else self.get is
\* called with the uriPath as save left it
SaveCallback ==
    /\ pc = "written"
    /\ IF sv.state = "failed"
       THEN /\ calls' = Append(calls, Failure("EISDIR", <<"EISDIR", ": ">> \o pathString(sv.file)))
            /\ pc' = "done"
            /\ UNCHANGED <<ret, probes, io>>
       ELSE LET out == resolverWith(sv.uri, rootDir, options)
                found == out.ret.kind = "path"
            IN  /\ ret' = out.ret
                /\ probes' = out.probes
                /\ calls' = IF found THEN calls ELSE Append(calls, noFileError(sv.uri))
                /\ io' = IF found
                         THEN [state |-> "reading", file |-> out.ret.path,
                               code |-> "", data |-> <<>>]
                         ELSE io
                /\ pc' = IF found THEN "reading" ELSE "done"
    /\ UNCHANGED <<fs, urlPath, options, req, nexts, sent, data, sv, markedVars>>

NextSave ==
    \/ \E u \in SavePaths, raw \in SaveContents, o \in SaveOptions :
           \/ Save(u, raw, FALSE, NoMeta, o)
           \/ \E meta \in {NoMeta, MetaObject} : Save(u, raw, TRUE, meta, o)
    \/ WriteFile
    \/ SaveCallback
    \/ ReadFile
    \/ ParseCallback

\* one call of save on the disk of the server, followed to its callback
SpecSave == InitServer /\ [][NextSave]_vars

\* the marked module as it is loaded, and no conversion made yet
InitMarked ==
    /\ fs = FsOf({})
    /\ urlPath = Missing
    /\ options = NoOptions
    /\ ret = NotFound
    /\ probes = {}
    /\ pc = "idle"
    /\ req = NoReq
    /\ io = NoIo
    /\ calls = <<>>
    /\ nexts = 0
    /\ sent = <<>>
    /\ data = {}
    /\ sv = NoSave
    /\ markedDefaults = LibraryDefaults
    /\ conv = NoConversion

\* parseContent() of a MarkdownFile whose _markedOptions are o
ParseContent(o) ==
    /\ markedDefaults' = parseMarkdown(markedDefaults, o)
    /\ conv' = [state |-> "converted", asked |-> o,
                used |-> parseMarkdown(markedDefaults, o)]
    /\ UNCHANGED <<fs, urlPath, options, ret, probes, pc,
                   req, io, calls, nexts, sent, data, sv>>

NextMarked == \E o \in MarkedChoices : ParseContent(o)

\* conversions of files with options of their own, one after the other
SpecMarked == InitMarked /\ [][NextMarked]_vars

----------------------------------------------------------------------------
(* Vocabulary of the properties *)

Done == pc = "done"

HasLeadingSlash(u) == u # Missing /\ u # <<>> /\ u[1] = "/"

\* a call that got past the first line, is not the root case, and decodes
Walked == Done /\ HasLeadingSlash(urlPath) /\ urlPath # <<"/">> /\ ~malformedURI(urlPath)

InsideRoot(p) == Len(p) > Len(rootDir) /\ SubSeq(p, 1, Len(rootDir)) = rootDir

OnDisk(p) == p \in fs.files \/ p \in fs.dirs

\* a disk as the documentation pictures it: the pages lie under the root,
\* and no directory has a name ending in the extension
PlainDisk ==
    /\ \A f \in fs.files : InsideRoot(f)
    /\ \A d \in fs.dirs : ~EndsWith(pathString(d), FileExtension)

\* segment i of segs as it is looked up: the last one carries the extension
SegName(segs, i) == IF i = Len(segs) THEN segs[i] \o FileExtension ELSE segs[i]

\* walking segs from directory u, descending into the literal name or else
\* the de-dashed name, some segment matches neither
RECURSIVE SomeSegmentUnmatched(_, _, _)
SomeSegmentUnmatched(segs, i, u) ==
    IF i > Len(segs) THEN FALSE
    ELSE LET p == pathResolve(u, SegName(segs, i))
             q == pathResolve(u, replaceDashes(SegName(segs, i)))
         IN  IF OnDisk(p) THEN SomeSegmentUnmatched(segs, i + 1, p)
             ELSE IF OnDisk(q) THEN SomeSegmentUnmatched(segs, i + 1, q)
             ELSE TRUE

\* ' ' written as %20
RECURSIVE encodeSpaces(_)
encodeSpaces(s) ==
    IF s = <<>> THEN <<>>
    ELSE IF Head(s) = " " THEN <<"%", "2", "0">> \o encodeSpaces(Tail(s))
    ELSE <<Head(s)>> \o encodeSpaces(Tail(s))

\* ' ' written as '-'
slugify(s) == [k \in 1..Len(s) |-> IF s[k] = " " THEN "-" ELSE s[k]]

\* a url path written with the names as they are on disk: spaces, and
\* neither escapes nor dashes
SpacedLiteral(u) ==
    /\ HasLeadingSlash(u)
    /\ \A k \in 1..Len(u) : u[k] # "%" /\ u[k] # "-"
    /\ \E k \in 1..Len(u) : u[k] = " "

\* <root>/<p><ext> for the path p that u names after lines 15-19
VerbatimFile(u) == pathResolve(rootDir, normalized(u) \o FileExtension)

DedashedFile(u) == pathResolve(rootDir, replaceDashes(normalized(u)) \o FileExtension)

----------------------------------------------------------------------------
(* Properties *)

\* C1: a returned path lies inside rootDir, whatever the urlPath ('..'
\* segments, escaped '..' or '/', a doubled leading slash).
C1_InsideRoot == Done /\ ret.kind = "path" => InsideRoot(ret.path)

\* C2: '/' resolves to <root>/index.md exactly when that path exists, and to
\* not-found otherwise, whatever else is on disk; nothing else is looked at.
C2_RootCase ==
    Done /\ urlPath = <<"/">> =>
        LET file == Append(rootDir, DefaultPageName \o FileExtension)
        IN  /\ ret = (IF OnDisk(file) THEN Found(file) ELSE NotFound)
            /\ probes \subseteq {file}

C2_Witness ==
    /\ Done /\ urlPath = <<"/">> /\ ret = NotFound
    /\ Append(rootDir, nDash \o FileExtension) \in fs.files

\* C3: when <root>/<p><ext> exists for the path p of a non-root urlPath, that
\* file is returned, whatever de-dashed variants exist.
C3_DirectMatch ==
    Walked /\ OnDisk(VerbatimFile(urlPath)) => ret = Found(VerbatimFile(urlPath))

C3_Witness ==
    /\ Walked /\ ret = Found(VerbatimFile(urlPath))
    /\ DedashedFile(urlPath) # VerbatimFile(urlPath)
    /\ OnDisk(DedashedFile(urlPath))

\* C4: when <root>/<p><ext> does not exist and the path with every '-' of p
\* replaced by a space does, that space-named file is returned.
C4_SlugFallback ==
    Walked /\ ~OnDisk(VerbatimFile(urlPath)) /\ OnDisk(DedashedFile(urlPath))
        => ret = Found(DedashedFile(urlPath))

C4_Witness ==
    /\ Walked /\ ~OnDisk(VerbatimFile(urlPath)) /\ OnDisk(DedashedFile(urlPath))
    /\ ret = Found(DedashedFile(urlPath))
    /\ Len(split(normalized(urlPath))) > 1

\* C5: literal names win over de-dashed names at every segment: where the
\* literal entry and the de-dashed entry both exist under the directory the
\* returned path has reached, the returned path goes through the literal one
\* (stated for plain disks).
C5_LiteralPriority ==
    Walked /\ PlainDisk /\ ret.kind = "path" =>
        LET segs == split(normalized(urlPath))
            at(k) == Len(rootDir) + k
        IN  Len(ret.path) = at(Len(segs)) =>
              \A k \in 1..Len(segs) :
                LET dir == SubSeq(ret.path, 1, at(k) - 1)
                    literal == Append(dir, SegName(segs, k))
                    dedashed == Append(dir, replaceDashes(SegName(segs, k)))
                IN  literal # dedashed /\ OnDisk(literal) /\ OnDisk(dedashed)
                        => ret.path[at(k)] = SegName(segs, k)

\* C6: when some segment matches neither its literal nor its de-dashed name
\* under the directory accumulated so far, the result is not-found (stated
\* for plain disks, so that a violation is a skipped segment and nothing
\* else).
C6_UnmatchedSegmentAborts ==
    Walked /\ PlainDisk
           /\ SomeSegmentUnmatched(split(normalized(urlPath)), 1, rootDir)
        => ret = NotFound

\* C7: a returned path was handed to exists() in this call, is a regular
\* file, and ends in the extension.
C7_ProbedRegularFile ==
    Done /\ ret.kind = "path" =>
        /\ ret.path \in probes
        /\ ret.path \in fs.files
        /\ EndsWith(pathString(ret.path), FileExtension)

\* C8: '/a/' gives what '/a/index' gives, found or not.
C8_TrailingSlash ==
    Done /\ HasLeadingSlash(urlPath) /\ urlPath # <<"/">> /\ EndsWith(urlPath, <<"/">>)
        => ret = resolver(urlPath \o DefaultPageName, rootDir).ret

C8_Witness ==
    /\ Done /\ Len(urlPath) > 2 /\ EndsWith(urlPath, <<"/">>)
    /\ ret = Found(rootDir \o <<nSpace, DefaultPageName \o FileExtension>>)

\* C9 as stated: when the file named by a spaced literal path exists, the
\* literal, the %20-encoded and the slugified form all resolve to it (stated
\* for plain disks).
C9_ThreeFormsAgree ==
    Done /\ SpacedLiteral(urlPath) /\ VerbatimFile(urlPath) \in fs.files
         /\ PlainDisk =>
        /\ ret = Found(VerbatimFile(urlPath))
        /\ resolver(encodeSpaces(urlPath), rootDir).ret = ret
        /\ resolver(slugify(urlPath), rootDir).ret = ret

\* C9 amended: the literal and the encoded form resolve to the file; the
\* slugified form does too unless the dashed path itself exists on disk.
C9_FormsAgreeUnlessDashedExists ==
    Done /\ SpacedLiteral(urlPath) /\ OnDisk(VerbatimFile(urlPath)) =>
        /\ ret = Found(VerbatimFile(urlPath))
        /\ resolver(encodeSpaces(urlPath), rootDir).ret = ret
        /\ ~OnDisk(VerbatimFile(slugify(urlPath)))
              => resolver(slugify(urlPath), rootDir).ret = ret

C9_Witness ==
    /\ Done /\ SpacedLiteral(urlPath) /\ OnDisk(VerbatimFile(urlPath))
    /\ Len(VerbatimFile(urlPath)) > Len(rootDir) + 1
    /\ ~OnDisk(VerbatimFile(slugify(urlPath)))
    /\ resolver(slugify(urlPath), rootDir).ret = ret
    /\ ret.kind = "path"

\* C10: a urlPath that is missing, empty or without a leading '/' gives
\* not-found with no exists() call and no exception.
C10_InvalidInput ==
    Done /\ ~HasLeadingSlash(urlPath) => ret = NotFound /\ probes = {}

C10_Witness ==
    /\ Done /\ urlPath = nDash /\ ret = NotFound
    /\ Append(rootDir, nDash \o FileExtension) \in fs.files

\* C11: no urlPath makes the function throw; what cannot be resolved,
\* malformed percent-escapes included, gives not-found.
C11_NeverThrows == Done => ret.kind # "throw"

\* C13: a call leaves the files and directories as they were.
C13_FilesystemUnchanged == [][pc = "idle" /\ pc' = "done" => fs' = fs]_vars

C13_Witness ==
    /\ Done /\ ret = NotFound
    /\ \E p \in probes : ~OnDisk(p) /\ InsideRoot(p)

----------------------------------------------------------------------------
(* The options of the resolver *)

\* the extension E of the options as a name ending: '.E', whichever way it was given
DotE(o) ==
    IF o.fileExtension = <<>> THEN FileExtension
    ELSE IF Head(o.fileExtension) = "." THEN o.fileExtension
    ELSE <<".">> \o o.fileExtension

\* the same options with the extension given the other way round
OtherSpelling(o) ==
    IF o.fileExtension = <<>> THEN o
    ELSE IF Head(o.fileExtension) = "."
    THEN [o EXCEPT !.fileExtension = Tail(o.fileExtension)]
    ELSE [o EXCEPT !.fileExtension = <<".">> \o o.fileExtension]

\* a call with options that got past the first line, is not the root case,
\* decodes, and does not take the useExtensionInUrl way
WalkedWith ==
    /\ Walked
    /\ ~(options.useExtensionInUrl
         /\ EndsWith(normalizedWith(urlPath, options), DotE(options)))

PageN(o) == IF o.defaultPageName = <<>> THEN DefaultPageName ELSE o.defaultPageName

\* the decoded path of a request, without its leading slash
Requested == stripLeading(decodeURIComponent(urlPath))

\* a request for a folder: a path with a trailing slash, other than '/'
FolderRequest == Walked /\ EndsWith(urlPath, <<"/">>)

\* the folders a request for a folder may stand for: the one named
\* verbatim and the one named with spaces for dashes
FoldersRequested ==
    {pathResolve(rootDir, Requested), pathResolve(rootDir, replaceDashes(Requested))}

C15_DefaultOptionsCase ==
    /\ Done
    /\ urlPath = <<"/">> \o nDash \o <<"/">>
    /\ options = NoOptions
    /\ fs.files = {rootDir \o <<nDash, nCustom \o FileExtension>>}
    /\ ret = NotFound

\* a call with useExtensionInUrl set whose decoded path already ends in the
\* configured extension
ExtensionInUrl ==
    /\ Walked
    /\ options.useExtensionInUrl
    /\ EndsWith(normalizedWith(urlPath, options), DotE(options))

C16_NoFallbackCase ==
    /\ ExtensionInUrl
    /\ urlPath = <<"/">> \o nDash \o <<".">> \o nFoo
    /\ fs.files = {Append(rootDir, nSpace \o <<".">> \o nFoo)}
    /\ ret = NotFound

----------------------------------------------------------------------------
(* The server and the middleware *)

\* t occurs in s
Occurs(t, s) ==
    \E i \in 1..(Len(s) - Len(t) + 1) : SubSeq(s, i, i + Len(t) - 1) = t

\* a call of get, by the program or by the middleware, in which the
\* resolver returned no file
NoFileFound == Done /\ req.via # "none" /\ ret = NotFound

\* C17: when the resolver finds no file, the callback is called once, with
\* an error and no result; no read is started; the message is the fixed text
\* followed by the uriPath as it was given, and no path under the root that
\* was looked up occurs in it.
C17_NoFileError ==
    NoFileFound =>
        /\ Len(calls) = 1
        /\ calls[1].kind = "error"
        /\ calls[1].file = <<>>
        /\ io = NoIo
        /\ calls[1].message = NoFilePrefix \o urlPath
        /\ \A p \in probes :
               InsideRoot(p) => ~Occurs(pathString(p), calls[1].message)

\* get('/c') with no page c.md: files were looked up under the root
C17_Witness ==
    /\ NoFileFound
    /\ req.via = "get"
    /\ urlPath = <<"/">> \o nOther
    /\ \E p \in probes : InsideRoot(p)
    /\ Len(calls) = 1

\* a call of get in which the resolver returned a file and the read of it
\* failed
ReadFailed == Done /\ req.via # "none" /\ ret.kind = "path" /\ io.state = "error"

\* C18: when the read of the resolved file fails, the callback is called
\* once, with the error of the read: it carries the code of the failure, it
\* is not the resolver's 'No file found matching path' error, and no result
\* and no response comes with it; a result is only ever handed on after a
\* read that succeeded.
C18_ReadErrorDelivered ==
    /\ ReadFailed =>
           /\ Len(calls) = 1
           /\ calls[1].kind = "error"
           /\ calls[1].code = io.code
           /\ calls[1].code \in {"ENOENT", "EISDIR"}
           /\ calls[1] # noFileError(urlPath)
           /\ ~Occurs(NoFilePrefix, calls[1].message)
           /\ sent = <<>>
    /\ \A i \in 1..Len(calls) :
           calls[i].kind = "result" => io.state = "data" /\ calls[i].file = ret.path

\* the page was deleted between the resolver's check and the read
C18_Witness ==
    /\ ReadFailed
    /\ io.code = "ENOENT"
    /\ io.file \notin fs.files
    /\ Len(calls) = 1

\* the resolver returned a directory, which cannot be read as a file
C18_UnreadableCase == ReadFailed /\ io.code = "EISDIR" /\ Len(calls) = 1

\* a request the middleware is done with
Handled == Done /\ req.via = "middleware"

\* C19: for a GET request whose path resolves to no document, the
\* middleware calls next(), once, and gives no response.
C19_NextOnNoDocument ==
    Handled /\ req.method = "GET" /\ ret.kind # "path" =>
        nexts = 1 /\ sent = <<>>

\* the same, of the requests for which the resolver returned
C19_NextOnNotFound ==
    Handled /\ req.method = "GET" /\ ret = NotFound =>
        nexts = 1 /\ sent = <<>>

\* C20: a request whose method is not GET, with no handler set, is passed
\* on with next() and gets no response from the middleware, neither sent
\* nor rendered, whether or not its path resolves to a document.
C20_NonGetNotServed ==
    req.via = "middleware" /\ req.method # "GET" /\ ~req.handling.handler =>
        /\ nexts >= 1
        /\ sent = <<>>

\* C21: whatever the middleware hands a MarkdownFile to (the view, the
\* preParse function, the handler, res.send), the file no longer has its
\* _file property.
C21_FileNeverExposed ==
    \A i \in 1..Len(sent) : sent[i].file = <<>>

\* a handler was called with the file the callback had got with its _file
C21_Witness ==
    /\ Handled
    /\ Len(calls) = 1 /\ calls[1].kind = "result" /\ calls[1].file \in fs.files
    /\ Len(sent) = 1 /\ sent[1].how = "handler" /\ sent[1].file = <<>>

\* C22: with a view the view is rendered and the handler is not called; the
\* handler is called only with no view; the JSON response, with
\* parsedContent, is sent only with neither; with a view parsedContent is
\* set only when preParse is the boolean true, and the view model is the
\* value of the preParse function exactly when preParse is a function.
C22_OptionPrecedence ==
    \A i \in 1..Len(sent) :
        LET h == req.handling
            r == sent[i]
        IN  /\ h.view => r.how = "render"
            /\ r.how = "handler" <=> ~h.view /\ h.handler
            /\ r.how = "send" <=> ~h.view /\ ~h.handler
            /\ r.how = "send" => r.parsedContent
            /\ h.view => (r.parsedContent <=> h.preParse = "true")
            /\ h.view => (r.preParsed <=> h.preParse = "function")
            /\ h.view => (r.model = "preParse" <=> h.preParse = "function")

\* a view and a handler are both set, preParse is a function: the view is
\* rendered with the function's value
C22_Witness ==
    /\ Handled
    /\ req.handling = Handling(TRUE, "function", TRUE)
    /\ Len(sent) = 1 /\ sent[1].how = "render" /\ sent[1].model = "preParse"

----------------------------------------------------------------------------
(* save *)

\* a call of save
Saving == req.via = "save"

\* the rawContent of the call is missing, empty or not a string
ContentRefused == Saving /\ (sv.raw.type # "string" \/ sv.raw.text = <<>>)

\* C23: a save whose rawContent is missing, empty or not a string ends at
\* once with one call of the callback, with an error and no file; the disk
\* is as it was before the call (no file, no directory, no text written),
\* with a meta and without.
C23_InvalidContentRejected ==
    ContentRefused =>
        /\ Done
        /\ Len(calls) = 1
        /\ calls[1].kind = "error"
        /\ calls[1].file = <<>>
        /\ fs = sv.before
        /\ data = {}
        /\ io = NoIo

\* save('/c/c', '', meta, callback): the folder c is not made
C23_Witness ==
    /\ ContentRefused
    /\ sv.raw = Str(<<>>)
    /\ sv.hasMeta /\ sv.meta = MetaObject
    /\ urlPath = <<"/">> \o nOther \o <<"/">> \o nOther
    /\ Append(rootDir, nOther) \notin fs.dirs
    /\ Len(calls) = 1

nonEmpty(name) == name # <<>>

\* the file named s under the root: the root followed by the names of s
Under(s) == rootDir \o SelectSeq(split(s), nonEmpty)

\* the file a save of a new document is to write: uriPath, with the default
\* page name after a trailing slash, and the extension with its '.'
Target ==
    Under((IF EndsWith(urlPath, <<"/">>) THEN urlPath \o PageN(options) ELSE urlPath)
          \o DotE(options))

\* a save, with a valid rawContent, of a uriPath the resolver found no file
\* for, that got as far as starting the write
SavingNew == Saving /\ sv.isNew /\ sv.state \in {"writing", "wrote", "failed"}

\* C24: a save of a uriPath that resolves to no file writes the file
\* <root>/<uriPath><ext> (the default page name first after a trailing slash,
\* the extension with a '.'), whatever is on the disk; the directories above
\* it are there when the write starts; once written, that file and those
\* directories are all that was added to the disk.
C24_SaveNewFile ==
    SavingNew =>
        /\ sv.file = Target
        /\ Ancestors(Target) \subseteq fs.dirs
        /\ fs.dirs = sv.before.dirs \cup Ancestors(Target)
        /\ sv.state = "writing" => fs.files = sv.before.files
        /\ sv.state = "wrote" =>
               /\ fs.files = sv.before.files \cup {Target}
               /\ data = {[file |-> Target, text |-> sv.text]}

\* save('/c/', ...) with {defaultPageName: 'custom', fileExtension: 'foo'}
\* wrote c/custom.foo, and made the folder c
C24_Witness ==
    /\ SavingNew
    /\ sv.state = "wrote"
    /\ urlPath = <<"/">> \o nOther \o <<"/">>
    /\ options = Options(nCustom, nFoo, FALSE)
    /\ sv.file = rootDir \o <<nOther, nCustom \o <<".">> \o nFoo>>
    /\ Append(rootDir, nOther) \notin sv.before.dirs
    /\ Append(rootDir, nOther) \in fs.dirs
    /\ sv.file \in fs.files

\* a save whose callback got a MarkdownFile, for the file that was written
Saved ==
    /\ Saving /\ Done /\ sv.state = "wrote"
    /\ Len(calls) = 1 /\ calls[1].kind = "result" /\ calls[1].file = sv.file

\* C25: the MarkdownFile a successful save hands to its callback has the
\* meta that was saved (none when meta was omitted) and, leading newlines
\* apart, the rawContent that was saved.
C25_RoundTrip ==
    Saved =>
        /\ calls[1].meta = (IF sv.hasMeta THEN sv.meta ELSE NoMeta)
        /\ stripNewlines(calls[1].rawContent) = stripNewlines(sv.raw.text)

\* the same, of the contents that hold no '---'
C25_RoundTripWithoutDashes ==
    Saved /\ (\A k \in 1..Len(sv.raw.text) : sv.raw.text[k] # "---") =>
        /\ calls[1].meta = (IF sv.hasMeta THEN sv.meta ELSE NoMeta)
        /\ stripNewlines(calls[1].rawContent) = stripNewlines(sv.raw.text)

\* C30: when the callback of save gets an error, the disk is as it was
\* before the call; when a file was written, the callback gets the
\* MarkdownFile of that file.
C30_AllOrNothing ==
    Saving /\ Done =>
        /\ (\E i \in 1..Len(calls) : calls[i].kind = "error") =>
               fs = sv.before /\ data = {}
        /\ sv.state = "wrote" =>
               Len(calls) = 1 /\ calls[1].kind = "result" /\ calls[1].file = sv.file

\* the same, of the saves over a file the resolver found: '/a-b' with only
\* 'a b.md' on the disk writes 'a b.md' and hands back that file
C30_OverwriteCase ==
    /\ Saved
    /\ ~sv.isNew
    /\ urlPath = <<"/">> \o nDash
    /\ sv.file = Append(rootDir, nSpace \o FileExtension)
    /\ Append(rootDir, nDash \o FileExtension) \notin fs.files

----------------------------------------------------------------------------
(* The options of a conversion *)

\* the options a conversion is to use: those of its file laid over the
\* options marked starts with, or, for a file with none, the highlighter
\* laid over them
OwnOptions(o) == merge(LibraryDefaults, IF o.isNull THEN HighlightAuto ELSE o)

\* C26: every conversion is made with the options of its own file (the
\* defaults when it has none), whatever was converted before it.
C26_OwnOptionsOnly ==
    conv.state = "converted" => conv.used = OwnOptions(conv.asked)

----------------------------------------------------------------------------
(* The segment walk with mixed naming *)

\* where a segment named s leads from the directory u: to its literal name
\* if that is on the disk, else to its de-dashed name if that is
Descend(u, s) ==
    IF OnDisk(pathResolve(u, s)) THEN [ok |-> TRUE, at |-> pathResolve(u, s)]
    ELSE IF OnDisk(pathResolve(u, replaceDashes(s)))
    THEN [ok |-> TRUE, at |-> pathResolve(u, replaceDashes(s))]
    ELSE [ok |-> FALSE, at |-> u]

\* the chain of the segments from the i-th on, starting at here: ok when
\* every one of them is on the disk beneath the place reached before it
RECURSIVE Chain(_, _, _)
Chain(segs, i, here) ==
    IF ~here.ok \/ i > Len(segs) THEN here
    ELSE Chain(segs, i + 1, Descend(here.at, SegName(segs, i)))

ChainOf(u) == Chain(split(normalized(u)), 1, [ok |-> TRUE, at |-> rootDir])

\* neither the path as given nor the path with every dash replaced is there
NoWholePathMatch ==
    ~OnDisk(VerbatimFile(urlPath)) /\ ~OnDisk(DedashedFile(urlPath))

\* C27: when no whole-path match exists but every segment exists in order,
\* under its literal name or else under its de-dashed name beneath the
\* directory reached so far (the last with the extension), resolve returns
\* the file at the end of that chain.
C27_MixedNaming ==
    (Walked /\ NoWholePathMatch /\ ChainOf(urlPath).ok)
        => ret = Found(ChainOf(urlPath).at)

\* '/a-b/a-b' with only 'a b/a-b.md' on the disk: a de-dashed folder and a
\* literal page
C27_Witness ==
    /\ Walked /\ NoWholePathMatch /\ ChainOf(urlPath).ok
    /\ Len(split(normalized(urlPath))) = 2
    /\ ChainOf(urlPath).at = rootDir \o <<nSpace, nDash \o FileExtension>>
    /\ ret = Found(ChainOf(urlPath).at)

----------------------------------------------------------------------------
(* The outcomes of the middleware *)

\* the outcomes the middleware has produced for the request: calls of
\* next() and responses (res.send or res.render)
Outcomes == nexts + Len(sent)

\* the resolver returned and the stat of the file read did not throw
RanThrough == ret.kind # "throw" /\ io.state # "threw"

\* C28: for every request, with no custom handler, the middleware produces
\* exactly one outcome: next() once and no response, or one response and no
\* next(); never next() twice, never next() together with a response.
C28_ExactlyOneOutcome ==
    req.via = "middleware" /\ ~req.handling.handler =>
        /\ Outcomes <= 1
        /\ Done /\ RanThrough => Outcomes = 1

\* the same, of the GET requests alone
C28_GetOutcome ==
    req.via = "middleware" /\ req.method = "GET" /\ ~req.handling.handler =>
        /\ Outcomes <= 1
        /\ Done /\ RanThrough => Outcomes = 1

\* a GET request that was answered, and one that was passed on
C28_GetAnswered ==
    Handled /\ req.method = "GET" /\ ~req.handling.handler /\ nexts = 0 /\ Len(sent) = 1

C28_GetPassedOn ==
    Handled /\ req.method = "GET" /\ ~req.handling.handler /\ nexts = 1 /\ sent = <<>>

----------------------------------------------------------------------------
(* The delivery of the callback of get *)

\* a call of get by the program that is over, in which the resolver returned
GetOver == Done /\ req.via = "get" /\ ret.kind # "throw"

\* an error and nothing else, or a MarkdownFile and no error
ErrorOrFile(c) ==
    \/ c.kind = "error" /\ c.file = <<>>
    \/ c.kind = "result" /\ c.message = <<>> /\ c.code = ""

\* C29: every call of get invokes its callback exactly once, with an error
\* or with a MarkdownFile and never both, and nothing is thrown out of the
\* asynchronous read instead, also when the file is deleted while the call
\* is under way, between the read and the stat that follows it included.
C29_CallbackOnce ==
    GetOver =>
        /\ Len(calls) = 1
        /\ ErrorOrFile(calls[1])
        /\ io.state # "threw"

\* the same, of the calls in which the file is still there when it is stat
C29_CallbackOnceUnlessDeleted ==
    GetOver /\ io.state # "threw" =>
        /\ Len(calls) = 1
        /\ ErrorOrFile(calls[1])

\* a deletion before the read: the callback gets the error of the read
C29_DeletedBeforeRead ==
    GetOver /\ io.state = "error" /\ io.code = "ENOENT" /\ Len(calls) = 1

============================================================================
